---- MODULE Spec2Model ----
(***************************************************************************)
(* State-machine model of the event-to-post pipeline of bigcases2,         *)
(* src/bc/subscription/tasks.py: the Link transition                       *)
(* (process_filing_webhook_event), the Pre-post check                      *)
(* (check_webhook_before_posting), Fetch completion                        *)
(* (process_fetch_webhook_event), the fan-out                              *)
(* (enqueue_posts_for_docket_alert) and the posting worker                 *)
(* (make_post_for_webhook_event).                                          *)
(*                                                                         *)
(* Every handler is decorated @transaction.atomic: a handler that raises   *)
(* leaves the relational store as it found it.  What it sent to the job    *)
(* queue and to the purchase backend before raising stays sent.            *)
(***************************************************************************)
EXTENDS Integers, Sequences, FiniteSets, TLC

VARIABLES
    events,         \* FilingWebhookEvent rows: pk -> fields
    subscriptions,  \* pks of the Subscription rows that exist
    channels,       \* pks of the enabled Channel rows linked to the subscription
    sponsorship,    \* Group -> "none" | "active": has it a sponsorship with budget left
    filepath_local, \* event pk -> does its RECAP document have a local copy
    queue,          \* the jobs handed to queue.enqueue, in order
    posts,          \* Post rows
    published,      \* statuses the platforms accepted (api.add_status returned)
    purchases,      \* event pk -> purchase requests sent (purchase_pdf_by_doc_id)
    ledger,         \* purchase ledger entries (log_purchase), in order
    reassigned,     \* event pk -> was a subscription that was set assigned again
    inflight,       \* delivery -> the handler run it has started and not ended
    new_case        \* the jobs enqueued (same queue) and the purchase requests
                    \* sent for newly followed cases

vars == <<events, subscriptions, channels, sponsorship, filepath_local, queue,
          posts, published, purchases, ledger, reassigned, inflight, new_case>>

----------------------------------------------------------------------------
(* Bounds of the model *)

\* jobs the queue holds over a run
MaxJobs == 2
\* stands for settings.RQ_MAX_NUMBER_OF_RETRIES (retry=Retry(max=...))
MaxRetries == 1
\* purchase requests counted per event
MaxPurchases == 2
\* ledger entries kept
MaxLedger == 2

----------------------------------------------------------------------------
(* The rows *)

None == "None"

Events == {1}
Subscriptions == {"s1"}
Channels == {1, 2, 3}
Groups == {"g1", "g2"}

\* Subscription.cl_docket_id
cl_docket_id(s) == IF s = "s1" THEN 1 ELSE 2

\* The event's docket id: 0 is the falsy value of line 188
DocketIds == {0, 1}

\* Channel.group: optional (lines 100 and 405 test it)
ChannelGroup(c) == CASE c = 1 -> "g1" [] c = 2 -> None [] OTHER -> "g2"

\* Sponsorship.watermark_message of the first sponsorship of a group
watermark_message(g) == IF g = "g1" THEN "sponsor g1" ELSE "sponsor g2"

RECEIVED == "RECEIVED"
SUCCESSFUL == "SUCCESSFUL"
FAILED == "FAILED"
IGNORED == "IGNORED"
WAITING_FOR_DOCUMENT == "WAITING_FOR_DOCUMENT"

\* The deliveries of one webhook: the sender delivers at least once, so the
\* handler of one event can be running twice at the same time
Deliveries == {1, 2}

\* a delivery whose handler is not running
Idle == [op |-> "idle"]

----------------------------------------------------------------------------
(* The content filter: DO_NOT_POST.search(description) *)

Whitespace == {" ", "\t"}

\* re.IGNORECASE
Lower(c) ==
    CASE c = "A" -> "a" [] c = "B" -> "b" [] c = "C" -> "c" [] c = "D" -> "d"
      [] c = "E" -> "e" [] c = "F" -> "f" [] c = "G" -> "g" [] c = "H" -> "h"
      [] c = "I" -> "i" [] c = "J" -> "j" [] c = "K" -> "k" [] c = "L" -> "l"
      [] c = "M" -> "m" [] c = "N" -> "n" [] c = "O" -> "o" [] c = "P" -> "p"
      [] c = "Q" -> "q" [] c = "R" -> "r" [] c = "S" -> "s" [] c = "T" -> "t"
      [] c = "U" -> "u" [] c = "V" -> "v" [] c = "W" -> "w" [] c = "X" -> "x"
      [] c = "Y" -> "y" [] c = "Z" -> "z" [] OTHER -> c

\* one element of a pattern against one character of the text
PatMatch(p, c) == IF p = "\\s" THEN c \in Whitespace ELSE Lower(c) = p

\* re.search of an alternation of literal phrases: a match anywhere in the text
Search(patterns, text) ==
    \E p \in patterns :
        \E i \in 1..(Len(text) - Len(p) + 1) :
            \A k \in 1..Len(p) : PatMatch(p[k], text[i + k - 1])

DO_NOT_POST ==
    { <<"p","r","o","\\s","h","a","c","\\s","v","i","c","e">>,
      <<"n","o","t","i","c","e","\\s","o","f","\\s",
        "a","p","p","e","a","r","a","n","c","e">>,
      <<"c","e","r","t","i","f","i","c","a","t","e","\\s","o","f","\\s",
        "d","i","s","c","l","o","s","u","r","e">>,
      <<"c","o","r","p","o","r","a","t","e","\\s",
        "d","i","s","c","l","o","s","u","r","e">>,
      <<"a","d","d","\\s","a","n","d","\\s","t","e","r","m","i","n","a","t","e",
        "\\s","a","t","t","o","r","n","e","y","s">>,
      <<"n","o","n","e">> }

\* The purchase-suppression patterns: imported at line 20
DO_NOT_PAY ==
    { <<"s","u","m","m","o","n","s">> }

\* "Motion to Dismiss", "Notice of Appearance", "Summons Issued"
Descriptions ==
    { <<"M","o","t","i","o","n"," ","t","o"," ","D","i","s","m","i","s","s">>,
      <<"N","o","t","i","c","e"," ","o","f"," ",
        "A","p","p","e","a","r","a","n","c","e">>,
      <<"S","u","m","m","o","n","s"," ","I","s","s","u","e","d">> }

\* the two searches, per description
DoNotPost == [d \in Descriptions |-> Search(DO_NOT_POST, d)]
DoNotPay == [d \in Descriptions |-> Search(DO_NOT_PAY, d)]

----------------------------------------------------------------------------
(* The state after the webhook view stored the event *)


Init ==
    /\ events \in [Events -> [docket_id : DocketIds,
                              description : Descriptions,
                              pacer_doc_id : {None, "pacer"},
                              status : {RECEIVED},
                              subscription : {None}]]
    /\ subscriptions \in SUBSET Subscriptions
    /\ channels \in SUBSET Channels
    /\ sponsorship \in [Groups -> {"none", "active"}]
    /\ filepath_local \in [Events -> BOOLEAN]
    /\ queue = <<>>
    /\ posts = {}
    /\ published = {}
    /\ purchases = [e \in Events |-> 0]
    /\ ledger = <<>>
    /\ reassigned = [e \in Events |-> FALSE]
    /\ inflight = [p \in Deliveries |-> Idle]
    /\ new_case = [jobs |-> <<>>, purchases |-> 0]

----------------------------------------------------------------------------
(* Link: process_filing_webhook_event, lines 175-206 *)

\* Subscription.objects.get(cl_docket_id=...): the rows it finds.  A docket is
\* followed by at most one Subscription, and Subscriptions are not deleted
SubscriptionsByDocket(subs, d) == {s \in subs : cl_docket_id(s) = d}

\* LinkRow without the assignment of line 202
LinkRowUnlinked(ev, subs) ==
    IF ev.docket_id = 0
    THEN ev
    ELSE IF SubscriptionsByDocket(subs, ev.docket_id) = {}
         THEN [ev EXCEPT !.status = FAILED]
         ELSE [ev EXCEPT !.status = SUCCESSFUL]

\* LinkRow with a replay rejected by failing the event
LinkRowFailingReplay(ev, subs) ==
    IF ev.docket_id = 0
    THEN ev
    ELSE IF ev.subscription # None
            \/ SubscriptionsByDocket(subs, ev.docket_id) = {}
         THEN [ev EXCEPT !.status = FAILED]
         ELSE [ev EXCEPT
                 !.subscription =
                     CHOOSE s \in SubscriptionsByDocket(subs, ev.docket_id) : TRUE,
                 !.status = SUCCESSFUL]

\* The event row the handler leaves, given the row it read
LinkRow(ev, subs) ==
    IF ev.docket_id = 0
    THEN ev
    ELSE IF SubscriptionsByDocket(subs, ev.docket_id) = {}
         THEN [ev EXCEPT !.status = FAILED]
         ELSE [ev EXCEPT
                 !.subscription =
                     CHOOSE s \in SubscriptionsByDocket(subs, ev.docket_id) : TRUE,
                 !.status = SUCCESSFUL]

\* the places of a call in the record of what a handler did
Places(did, call) == {i \in 1..Len(did) : did[i] = call}

\* What the handler did, in order
LinkDid(ev, subs) ==
    IF ev.docket_id = 0
    THEN <<"return">>
    ELSE IF SubscriptionsByDocket(subs, ev.docket_id) = {}
         THEN <<"status=FAILED", "save", "return">>
         ELSE <<"subscription=", "status=SUCCESSFUL", "save", "return">>

process_filing_webhook_event(e) ==
    /\ events' = [events EXCEPT ![e] = LinkRow(events[e], subscriptions)]
    /\ reassigned' = [reassigned EXCEPT ![e] =
                         \/ @
                         \/ /\ events[e].subscription # None
                            /\ Places(LinkDid(events[e], subscriptions),
                                      "subscription=") # {}]
    /\ UNCHANGED <<subscriptions, channels, sponsorship, filepath_local, queue,
                   posts, published, purchases, ledger, inflight, new_case>>

----------------------------------------------------------------------------
(* Fan-out: enqueue_posts_for_docket_alert, lines 134-172 *)

RECURSIVE SortedSeq(_)
\* a set of pks as the sequence a queryset ordered by pk yields
SortedSeq(S) ==
    IF S = {}
    THEN <<>>
    ELSE LET m == CHOOSE x \in S : \A y \in S : x <= y
         IN  <<m>> \o SortedSeq(S \ {m})

\* get_channels_per_subscription: the enabled channels of the subscription,
\* taken in the order of their pks
get_channels_per_subscription(chs, sub) == SortedSeq(chs)

\* the groups of the subscription's channels that hold an active sponsorship
get_sponsored_groups_per_subscription(chs, sp, sub) ==
    {g \in Groups : sp[g] = "active" /\ \E c \in chs : ChannelGroup(c) = g}

check_active_sponsorships(chs, sp, sub) ==
    get_sponsored_groups_per_subscription(chs, sp, sub) # {}

\* lines 156-160
SponsorMessage(c, sp, check_sponsor_message) ==
    IF check_sponsor_message /\ sp[ChannelGroup(c)] # "none"
    THEN watermark_message(ChannelGroup(c))
    ELSE None

\* lines 162-172: the job one queue.enqueue call creates
Job(c, e, document_url, sponsor_text) ==
    [channel_pk |-> c, fwe_pk |-> e, document_url |-> document_url,
     sponsor_text |-> sponsor_text, retries_left |-> MaxRetries,
     status |-> "queued"]

RECURSIVE EnqueueLoop(_, _, _, _, _)
\* lines 153-172: the loop over the channels.  channel.group.sponsorships of a
\* channel without a group raises AttributeError, which ends the loop
EnqueueLoop(cs, e, document_url, check_sponsor_message, sp) ==
    IF cs = <<>>
    THEN [jobs |-> <<>>, raised |-> None]
    ELSE IF ChannelGroup(Head(cs)) = None
         THEN [jobs |-> <<>>, raised |-> "AttributeError"]
         ELSE LET rest == EnqueueLoop(Tail(cs), e, document_url,
                                      check_sponsor_message, sp)
              IN  [jobs |-> <<Job(Head(cs), e, document_url,
                                  SponsorMessage(Head(cs), sp,
                                                 check_sponsor_message))>>
                            \o rest.jobs,
                   raised |-> rest.raised]

enqueue_posts_for_docket_alert(ev, e, document_url, check, chs, sp) ==
    IF ev.subscription = None
    THEN [jobs |-> <<>>, raised |-> None]
    ELSE EnqueueLoop(get_channels_per_subscription(chs, ev.subscription), e,
                     document_url, check, sp)

\* the calls of a fan-out as the handler's record lists them
EnqueueDid(out) ==
    [i \in 1..Len(out.jobs) |-> "enqueue"]
    \o (IF out.raised = None THEN <<>> ELSE <<"raise">>)

----------------------------------------------------------------------------
(* Pre-post check: check_webhook_before_posting, lines 209-264 *)

\* cl_document["filepath_local"] of the event's document
FilePath(e) == "pdf"

\* MustPurchase without the test of pacer_doc_id
MustPurchaseWithoutPacerId(ev, chs, sp) ==
    /\ check_active_sponsorships(chs, sp, ev.subscription)
    /\ ~DoNotPay[ev.description]

\* must the handler buy the document: lines 244-251
MustPurchase(ev, chs, sp) ==
    /\ check_active_sponsorships(chs, sp, ev.subscription)
    /\ ev.pacer_doc_id # None
    /\ ~DoNotPay[ev.description]

\* CheckRun with the error of the document lookup caught: the handler goes on
\* as if the document had no local copy and nothing was to be bought
CheckRunSwallowingError(ev, e, local, chs, sp, lookup, purchase) ==
    IF ev.status # SUCCESSFUL
    THEN [row |-> ev, jobs |-> <<>>, bought |-> 0, did |-> <<"return">>]
    ELSE IF ev.subscription = None
    THEN [row |-> ev, jobs |-> <<>>, bought |-> 0, did |-> <<"raise">>]
    ELSE IF DoNotPost[ev.description]
    THEN [row |-> [ev EXCEPT !.status = IGNORED], jobs |-> <<>>, bought |-> 0,
          did |-> <<"status=IGNORED", "save", "return">>]
    ELSE IF lookup = "ok" /\ ~local /\ MustPurchase(ev, chs, sp)
    THEN IF purchase # "ok"
         THEN [row |-> ev, jobs |-> <<>>, bought |-> 0,
               did |-> <<"lookup", "purchase", "raise">>]
         ELSE [row |-> [ev EXCEPT !.status = WAITING_FOR_DOCUMENT],
               jobs |-> <<>>, bought |-> 1,
               did |-> <<"lookup", "purchase", "status=WAITING_FOR_DOCUMENT",
                         "save", "return">>]
    ELSE LET out == enqueue_posts_for_docket_alert(
                        ev, e,
                        IF lookup = "ok" /\ local THEN FilePath(e) ELSE None,
                        FALSE, chs, sp)
         IN  [row |-> ev, jobs |-> out.jobs, bought |-> 0,
              did |-> <<"lookup">> \o EnqueueDid(out)
                      \o (IF out.raised = None THEN <<"return">> ELSE <<>>)]

\* CheckRun without the test of the status at line 223
CheckRunWithoutStatusGuard(ev, e, local, chs, sp, lookup, purchase) ==
    IF ev.subscription = None
    THEN [row |-> ev, jobs |-> <<>>, bought |-> 0, did |-> <<"raise">>]
    ELSE IF DoNotPost[ev.description]
    THEN [row |-> [ev EXCEPT !.status = IGNORED], jobs |-> <<>>, bought |-> 0,
          did |-> <<"status=IGNORED", "save", "return">>]
    ELSE IF lookup # "ok"
    THEN [row |-> ev, jobs |-> <<>>, bought |-> 0, did |-> <<"lookup", "raise">>]
    ELSE IF ~local /\ MustPurchase(ev, chs, sp)
    THEN IF purchase # "ok"
         THEN [row |-> ev, jobs |-> <<>>, bought |-> 0,
               did |-> <<"lookup", "purchase", "raise">>]
         ELSE [row |-> [ev EXCEPT !.status = WAITING_FOR_DOCUMENT],
               jobs |-> <<>>, bought |-> 1,
               did |-> <<"lookup", "purchase", "status=WAITING_FOR_DOCUMENT",
                         "save", "return">>]
    ELSE LET out == enqueue_posts_for_docket_alert(
                        ev, e, IF local THEN FilePath(e) ELSE None, FALSE,
                        chs, sp)
         IN  [row |-> ev, jobs |-> out.jobs, bought |-> 0,
              did |-> <<"lookup">> \o EnqueueDid(out)
                      \o (IF out.raised = None THEN <<"return">> ELSE <<>>)]

\* One run of the handler on the row ev of event e.  lookup and purchase say
\* whether the call to the purchase backend returns ("ok") or raises.
\* row: the row as committed; jobs: what went to the queue; bought: purchase
\* requests sent; did: the calls in order
CheckRun(ev, e, local, chs, sp, lookup, purchase) ==
    IF ev.status # SUCCESSFUL
    THEN [row |-> ev, jobs |-> <<>>, bought |-> 0, did |-> <<"return">>]
    ELSE IF ev.subscription = None
    THEN [row |-> ev, jobs |-> <<>>, bought |-> 0, did |-> <<"raise">>]
    ELSE IF DoNotPost[ev.description]
    THEN [row |-> [ev EXCEPT !.status = IGNORED], jobs |-> <<>>, bought |-> 0,
          did |-> <<"status=IGNORED", "save", "return">>]
    ELSE IF lookup # "ok"
    THEN [row |-> ev, jobs |-> <<>>, bought |-> 0, did |-> <<"lookup", "raise">>]
    ELSE IF ~local /\ MustPurchase(ev, chs, sp)
    THEN IF purchase # "ok"
         THEN [row |-> ev, jobs |-> <<>>, bought |-> 0,
               did |-> <<"lookup", "purchase", "raise">>]
         ELSE [row |-> [ev EXCEPT !.status = WAITING_FOR_DOCUMENT],
               jobs |-> <<>>, bought |-> 1,
               did |-> <<"lookup", "purchase", "status=WAITING_FOR_DOCUMENT",
                         "save", "return">>]
    ELSE LET out == enqueue_posts_for_docket_alert(
                        ev, e, IF local THEN FilePath(e) ELSE None, FALSE,
                        chs, sp)
         IN  [row |-> ev, jobs |-> out.jobs, bought |-> 0,
              did |-> <<"lookup">> \o EnqueueDid(out)
                      \o (IF out.raised = None THEN <<"return">> ELSE <<>>)]

check_webhook_before_posting(e) ==
    \E lookup \in {"ok", "raise"}, purchase \in {"ok", "raise"} :
        LET run == CheckRun(events[e], e, filepath_local[e], channels,
                            sponsorship, lookup, purchase)
        IN  /\ Len(queue) + Len(run.jobs) <= MaxJobs
            /\ purchases[e] + run.bought <= MaxPurchases
            /\ events' = [events EXCEPT ![e] = run.row]
            /\ queue' = queue \o run.jobs
            /\ purchases' = [purchases EXCEPT ![e] = @ + run.bought]
            /\ UNCHANGED <<subscriptions, channels, sponsorship, filepath_local,
                           posts, published, ledger, reassigned, inflight,
                           new_case>>

----------------------------------------------------------------------------
(* Fetch completion: process_fetch_webhook_event, lines 304-370, for
   record_type = "filing_webhook" *)

\* log_purchase(sponsor_groups, subscription.pk, document)
LedgerEntry(groups, sub, e) == [groups |-> groups, subscription |-> sub, fwe |-> e]

\* FetchRun with the status written at line 331 kept when the run raises
FetchRunWithoutRollback(ev, e, local, chs, sp, lookup) ==
    IF ev.subscription = None
    THEN [row |-> ev, jobs |-> <<>>, entries |-> <<>>, did |-> <<"raise">>]
    ELSE IF lookup # "ok"
    THEN [row |-> [ev EXCEPT !.status = SUCCESSFUL], jobs |-> <<>>,
          entries |-> <<>>,
          did |-> <<"status=SUCCESSFUL", "save", "lookup", "raise">>]
    ELSE IF ~local
    THEN [row |-> [ev EXCEPT !.status = SUCCESSFUL], jobs |-> <<>>,
          entries |-> <<>>,
          did |-> <<"status=SUCCESSFUL", "save", "lookup", "raise">>]
    ELSE LET groups == get_sponsored_groups_per_subscription(
                           chs, sp, ev.subscription)
             logged == IF groups # {}
                       THEN <<LedgerEntry(groups, ev.subscription, e)>>
                       ELSE <<>>
             out == enqueue_posts_for_docket_alert(ev, e, FilePath(e), TRUE,
                                                   chs, sp)
             did == <<"status=SUCCESSFUL", "save", "lookup">>
                    \o [i \in 1..Len(logged) |-> "log_purchase"]
                    \o EnqueueDid(out)
         IN  IF out.raised = None
             THEN [row |-> [ev EXCEPT !.status = SUCCESSFUL],
                   jobs |-> out.jobs, entries |-> logged,
                   did |-> did \o <<"return">>]
             ELSE [row |-> ev, jobs |-> out.jobs, entries |-> <<>>, did |-> did]

\* One run of the handler on the row ev of event e.  lookup: the document
\* lookup returns a document ("ok"), returns nothing ("none") or raises.
\* A run that raises commits neither the status nor the ledger entry; the
\* jobs it enqueued before raising stay in the queue
FetchRun(ev, e, local, chs, sp, lookup) ==
    IF ev.subscription = None
    THEN [row |-> ev, jobs |-> <<>>, entries |-> <<>>, did |-> <<"raise">>]
    ELSE IF lookup # "ok"
    THEN [row |-> ev, jobs |-> <<>>, entries |-> <<>>,
          did |-> <<"status=SUCCESSFUL", "save", "lookup", "raise">>]
    ELSE IF ~local
    THEN [row |-> ev, jobs |-> <<>>, entries |-> <<>>,
          did |-> <<"status=SUCCESSFUL", "save", "lookup", "raise">>]
    ELSE LET groups == get_sponsored_groups_per_subscription(
                           chs, sp, ev.subscription)
             logged == IF groups # {}
                       THEN <<LedgerEntry(groups, ev.subscription, e)>>
                       ELSE <<>>
             out == enqueue_posts_for_docket_alert(ev, e, FilePath(e), TRUE,
                                                   chs, sp)
             did == <<"status=SUCCESSFUL", "save", "lookup">>
                    \o [i \in 1..Len(logged) |-> "log_purchase"]
                    \o EnqueueDid(out)
         IN  IF out.raised = None
             THEN [row |-> [ev EXCEPT !.status = SUCCESSFUL],
                   jobs |-> out.jobs, entries |-> logged,
                   did |-> did \o <<"return">>]
             ELSE [row |-> ev, jobs |-> out.jobs, entries |-> <<>>, did |-> did]

process_fetch_webhook_event(e) ==
    \E lookup \in {"ok", "none", "raise"} :
        LET run == FetchRun(events[e], e, filepath_local[e], channels,
                            sponsorship, lookup)
        IN  /\ Len(queue) + Len(run.jobs) <= MaxJobs
            /\ Len(ledger) + Len(run.entries) <= MaxLedger
            /\ events' = [events EXCEPT ![e] = run.row]
            /\ queue' = queue \o run.jobs
            /\ ledger' = ledger \o run.entries
            /\ UNCHANGED <<subscriptions, channels, sponsorship, filepath_local,
                           posts, published, purchases, reassigned, inflight,
                           new_case>>

----------------------------------------------------------------------------
(* The posting worker: make_post_for_webhook_event, lines 373-434, run by the
   queue with retry=Retry(max=RQ_MAX_NUMBER_OF_RETRIES) *)

\* the id the platform gives the status it accepted: one per attempt of a job
NewPostId(i, job) == (i - 1) * (MaxRetries + 1) + (MaxRetries - job.retries_left) + 1

\* Retried with retries that are handed out again when they are used up
RetriedForever(job) ==
    [job EXCEPT !.retries_left = IF @ > 0 THEN @ - 1 ELSE MaxRetries]

\* the job after an attempt that raised: rq puts it back while retries are left
Retried(job) ==
    IF job.retries_left > 0
    THEN [job EXCEPT !.retries_left = @ - 1]
    ELSE [job EXCEPT !.status = "failed"]

\* PostRun with the error of the platform call caught and passed over
PostRunPassingOverError(i, job, ev, platform) ==
    IF ev.subscription = None
    THEN [job |-> Retried(job), status |-> {}, post |-> {}, did |-> <<"raise">>]
    ELSE [job |-> [job EXCEPT !.status = "finished"],
          status |-> IF platform = "ok"
                     THEN {[channel |-> job.channel_pk, fwe |-> job.fwe_pk,
                            object_id |-> NewPostId(i, job),
                            files |-> job.document_url # None,
                            watermark |-> IF job.document_url # None
                                          THEN job.sponsor_text ELSE None]}
                     ELSE {},
          post |-> {[filing_webhook_event |-> job.fwe_pk,
                     channel |-> job.channel_pk,
                     object_id |-> IF platform = "ok"
                                   THEN NewPostId(i, job) ELSE 0]},
          did |-> <<"add_status", "create", "return">>]

\* One attempt at job.  platform: api.add_status returns ("ok") or raises.
\* status: what the platform accepted, if anything; post: the Post row
\* created, if any
PostRun(i, job, ev, platform) ==
    IF ev.subscription = None
    THEN [job |-> Retried(job), status |-> {}, post |-> {}, did |-> <<"raise">>]
    ELSE IF platform # "ok"
    THEN [job |-> Retried(job), status |-> {}, post |-> {},
          did |-> <<"add_status", "raise">>]
    ELSE [job |-> [job EXCEPT !.status = "finished"],
          status |-> {[channel |-> job.channel_pk, fwe |-> job.fwe_pk,
                       object_id |-> NewPostId(i, job),
                       files |-> job.document_url # None,
                       watermark |-> IF job.document_url # None
                                     THEN job.sponsor_text ELSE None]},
          post |-> {[filing_webhook_event |-> job.fwe_pk,
                     channel |-> job.channel_pk,
                     object_id |-> NewPostId(i, job)]},
          did |-> <<"add_status", "create", "return">>]

\* the worker recording on the event that posting failed for good
make_post_marking_event(i) ==
    /\ queue[i].status = "queued"
    /\ \E platform \in {"ok", "raise"} :
        LET run == PostRun(i, queue[i], events[queue[i].fwe_pk], platform)
        IN  /\ queue' = [queue EXCEPT ![i] = run.job]
            /\ published' = published \cup run.status
            /\ posts' = posts \cup run.post
            /\ events' = IF run.job.status = "failed"
                         THEN [events EXCEPT ![queue[i].fwe_pk].status = FAILED]
                         ELSE events
    /\ UNCHANGED <<subscriptions, channels, sponsorship, filepath_local,
                   purchases, ledger, reassigned, inflight, new_case>>

\* the worker with the event's jobs tied together: a job that runs out of
\* retries fails the jobs of the other channels that are still queued
make_post_failing_siblings(i) ==
    /\ queue[i].status = "queued"
    /\ \E platform \in {"ok", "raise"} :
        LET run == PostRun(i, queue[i], events[queue[i].fwe_pk], platform)
        IN  /\ queue' = [k \in 1..Len(queue) |->
                            IF k = i
                            THEN run.job
                            ELSE IF /\ run.job.status = "failed"
                                    /\ queue[k].fwe_pk = queue[i].fwe_pk
                                    /\ queue[k].status = "queued"
                                 THEN [queue[k] EXCEPT !.status = "failed"]
                                 ELSE queue[k]]
            /\ published' = published \cup run.status
            /\ posts' = posts \cup run.post
    /\ UNCHANGED <<events, subscriptions, channels, sponsorship,
                   filepath_local, purchases, ledger, reassigned, inflight,
                   new_case>>

make_post_for_webhook_event(i) ==
    /\ queue[i].status = "queued"
    /\ \E platform \in {"ok", "raise"} :
        LET run == PostRun(i, queue[i], events[queue[i].fwe_pk], platform)
        IN  /\ queue' = [queue EXCEPT ![i] = run.job]
            /\ published' = published \cup run.status
            /\ posts' = posts \cup run.post
    /\ UNCHANGED <<events, subscriptions, channels, sponsorship,
                   filepath_local, purchases, ledger, reassigned, inflight,
                   new_case>>

----------------------------------------------------------------------------
(* What happens around the pipeline *)

\* a user follows the case: the Subscription row is created
CreateSubscription(s) ==
    /\ s \notin subscriptions
    /\ subscriptions' = subscriptions \cup {s}
    /\ UNCHANGED <<events, channels, sponsorship, filepath_local, queue, posts,
                   published, purchases, ledger, reassigned, inflight,
                   new_case>>

\* the document reaches the RECAP archive
DocumentArrives(e) ==
    /\ ~filepath_local[e]
    /\ filepath_local' = [filepath_local EXCEPT ![e] = TRUE]
    /\ UNCHANGED <<events, subscriptions, channels, sponsorship, queue, posts,
                   published, purchases, ledger, reassigned, inflight,
                   new_case>>

\* an operator of the channel disables it: it is no longer among the enabled
\* channels of the subscription
DisableChannel(c) ==
    /\ c \in channels
    /\ channels' = channels \ {c}
    /\ UNCHANGED <<events, subscriptions, sponsorship, filepath_local, queue,
                   posts, published, purchases, ledger, reassigned, inflight, new_case>>

----------------------------------------------------------------------------

Next ==
    \/ \E e \in Events : process_fetch_webhook_event(e)
    \/ \E i \in 1..Len(queue) : make_post_for_webhook_event(i)
    \/ \E s \in Subscriptions : CreateSubscription(s)
    \/ \E e \in Events : DocumentArrives(e)
    \/ \E e \in Events : check_webhook_before_posting(e)
    \/ \E e \in Events : process_filing_webhook_event(e)

Spec == Init /\ [][Next]_vars

\* The queue's workers take every queued job, and Retry hands a job whose
\* attempt raised back to them after its interval: a job that is queued is
\* attempted in the end
Fairness ==
    \A i \in 1..MaxJobs :
        WF_vars(i \in 1..Len(queue) /\ make_post_for_webhook_event(i))

SpecFair == Spec /\ Fairness

\* The purchase backend delivers in the end: the document gets its local
\* copy, and the callback is handled (and handled again after a failure)
FairnessCallback ==
    /\ WF_vars(\E e \in Events : DocumentArrives(e))
    /\ WF_vars(\E e \in Events : process_fetch_webhook_event(e))

SpecCallback == Spec /\ FairnessCallback

\* the pipeline with channels that are disabled while it runs
NextDisable ==
    \/ Next
    \/ \E c \in Channels : DisableChannel(c)

SpecDisable == Init /\ [][NextDisable]_vars

----------------------------------------------------------------------------
(* A newly followed case: enqueue_posts_for_new_case, lines 40-131,
   check_initial_complaint_before_posting, lines 267-301, and
   process_fetch_webhook_event for record_type = "subscription" *)

\* files of line 58: no images
NoFiles == [thumbnails |-> FALSE, watermarks |-> <<>>]

\* get_thumbnails_from_range(document, "[1,2,3,4]") of line 61: the images of
\* the document's pages, and the sponsor texts stamped on them, in order
Thumbnails == [thumbnails |-> TRUE, watermarks |-> <<>>]

\* the images it is given with the text stamped on them
add_sponsored_text_to_thumbnails(files, text) ==
    [files EXCEPT !.watermarks = Append(@, text)]

\* lines 122-131: the job one queue.enqueue(api.add_status, ...) call creates
NewCaseJob(c, files) ==
    [channel_pk |-> c, files |-> files, retries_left |-> MaxRetries,
     status |-> "queued"]

RECURSIVE NewCaseLoop(_, _, _, _)
\* lines 97-131: the loop over the channels.  files is the variable of line
\* 58, assigned again at line 120.  Line 116 raises AttributeError for a
\* channel without a group
NewCaseLoop(cs, files, check_sponsor_message, sp) ==
    IF cs = <<>>
    THEN [jobs |-> <<>>, raised |-> None]
    ELSE IF ChannelGroup(Head(cs)) = None
         THEN [jobs |-> <<>>, raised |-> "AttributeError"]
         ELSE LET stamp == /\ check_sponsor_message
                           /\ sp[ChannelGroup(Head(cs))] # "none"
                           /\ files.thumbnails
                  next == IF stamp
                          THEN add_sponsored_text_to_thumbnails(
                                   files, watermark_message(ChannelGroup(Head(cs))))
                          ELSE files
                  rest == NewCaseLoop(Tail(cs), next, check_sponsor_message, sp)
              IN  [jobs |-> <<NewCaseJob(Head(cs), next)>> \o rest.jobs,
                   raised |-> rest.raised]

enqueue_posts_for_new_case(sub, document_url, check, chs, sp) ==
    NewCaseLoop(get_channels_per_subscription(chs, sub),
                IF document_url # None THEN Thumbnails ELSE NoFiles, check, sp)

\* what lookup_initial_complaint can return: nothing, or a document with or
\* without a local copy and with or without a PACER document id
Complaints ==
    {d \in [found : BOOLEAN, filepath_local : BOOLEAN, pacer_doc_id : BOOLEAN] :
        ~d.found => ~d.filepath_local /\ ~d.pacer_doc_id}

\* MustPurchaseComplaint without the test of pacer_doc_id
MustPurchaseComplaintWithoutPacerId(doc, sub, chs, sp) ==
    /\ doc.found
    /\ ~doc.filepath_local
    /\ check_active_sponsorships(chs, sp, sub)

\* must the handler buy the initial complaint: lines 286-290
MustPurchaseComplaint(doc, sub, chs, sp) ==
    /\ doc.found
    /\ ~doc.filepath_local
    /\ doc.pacer_doc_id
    /\ check_active_sponsorships(chs, sp, sub)

\* One run of check_initial_complaint_before_posting for subscription sub,
\* doc being what lookup_initial_complaint returns
CaseRun(sub, doc, chs, sp) ==
    IF MustPurchaseComplaint(doc, sub, chs, sp)
    THEN [jobs |-> <<>>, bought |-> 1, did |-> <<"lookup", "purchase", "return">>]
    ELSE LET out == enqueue_posts_for_new_case(
                        sub, IF doc.found /\ doc.filepath_local
                             THEN FilePath(sub) ELSE None,
                        FALSE, chs, sp)
         IN  [jobs |-> out.jobs, bought |-> 0,
              did |-> <<"lookup", "enqueue_posts_for_new_case">>
                      \o EnqueueDid(out)
                      \o (IF out.raised = None THEN <<"return">> ELSE <<>>)]

check_initial_complaint_before_posting(s) ==
    /\ s \in subscriptions
    /\ \E doc \in Complaints :
        LET run == CaseRun(s, doc, channels, sponsorship)
        IN  /\ Len(new_case.jobs) + Len(run.jobs) <= MaxJobs
            /\ new_case.purchases + run.bought <= MaxPurchases
            /\ new_case' = [jobs |-> new_case.jobs \o run.jobs,
                            purchases |-> new_case.purchases + run.bought]
    /\ UNCHANGED <<events, subscriptions, channels, sponsorship, filepath_local,
                   queue, posts, published, purchases, ledger, reassigned,
                   inflight>>

\* One run of process_fetch_webhook_event(sub, "subscription").  A run that
\* raises commits no ledger entry; the jobs it enqueued before stay
CaseFetchRun(sub, doc, chs, sp) ==
    IF ~doc.found \/ ~doc.filepath_local
    THEN [jobs |-> <<>>, entries |-> <<>>, did |-> <<"lookup", "raise">>]
    ELSE LET groups == get_sponsored_groups_per_subscription(chs, sp, sub)
             logged == IF groups # {}
                       THEN <<LedgerEntry(groups, sub, 0)>>
                       ELSE <<>>
             out == enqueue_posts_for_new_case(sub, FilePath(sub), TRUE, chs, sp)
             did == <<"lookup">>
                    \o [i \in 1..Len(logged) |-> "log_purchase"]
                    \o <<"enqueue_posts_for_new_case">> \o EnqueueDid(out)
         IN  IF out.raised = None
             THEN [jobs |-> out.jobs, entries |-> logged,
                   did |-> did \o <<"return">>]
             ELSE [jobs |-> out.jobs, entries |-> <<>>, did |-> did]

process_fetch_webhook_event_subscription(s) ==
    /\ s \in subscriptions
    /\ \E doc \in Complaints :
        LET run == CaseFetchRun(s, doc, channels, sponsorship)
        IN  /\ Len(new_case.jobs) + Len(run.jobs) <= MaxJobs
            /\ Len(ledger) + Len(run.entries) <= MaxLedger
            /\ new_case' = [new_case EXCEPT !.jobs = @ \o run.jobs]
            /\ ledger' = ledger \o run.entries
    /\ UNCHANGED <<events, subscriptions, channels, sponsorship, filepath_local,
                   queue, posts, published, purchases, reassigned, inflight>>

\* the id the platform gives the status of a new-case job: one per attempt
NewCasePostId(i, job) == 1000 + NewPostId(i, job)

\* One attempt at a new-case job: the job is api.add_status itself (line 123)
add_status(i) ==
    /\ new_case.jobs[i].status = "queued"
    /\ \E platform \in {"ok", "raise"} :
        LET job == new_case.jobs[i]
        IN  IF platform = "ok"
            THEN /\ new_case' = [new_case EXCEPT !.jobs[i].status = "finished"]
                 /\ published' = published \cup
                        {[channel |-> job.channel_pk, fwe |-> 0,
                          object_id |-> NewCasePostId(i, job),
                          files |-> job.files.thumbnails,
                          watermark |-> IF job.files.watermarks = <<>>
                                        THEN None
                                        ELSE job.files.watermarks[
                                                 Len(job.files.watermarks)],
                          watermarks |-> Len(job.files.watermarks)]}
            ELSE /\ new_case' = [new_case EXCEPT !.jobs[i] = Retried(job)]
                 /\ published' = published
    /\ UNCHANGED <<events, subscriptions, channels, sponsorship, filepath_local,
                   queue, posts, purchases, ledger, reassigned, inflight>>

NextNewCase ==
    \/ \E s \in Subscriptions : check_initial_complaint_before_posting(s)
    \/ \E s \in Subscriptions : process_fetch_webhook_event_subscription(s)
    \/ \E i \in 1..Len(new_case.jobs) : add_status(i)
    \/ \E s \in Subscriptions : CreateSubscription(s)

\* no case is followed yet, and no notification about a followed docket has
\* come in: the new-case handlers read no event
InitNewCase ==
    /\ Init
    /\ subscriptions = {}
    /\ \A e \in Events :
           /\ events[e].docket_id = 0
           /\ events[e].pacer_doc_id = None
           /\ ~DoNotPost[events[e].description]
           /\ ~DoNotPay[events[e].description]
           /\ ~filepath_local[e]

SpecNewCase == InitNewCase /\ [][NextNewCase]_vars

----------------------------------------------------------------------------
(* Duplicate delivery.  A handler reads the event row with
   FilingWebhookEvent.objects.get (lines 221, 322), which takes no lock, and
   decides on the row it read; @transaction.atomic makes its writes one unit
   but does not keep a second run from reading the same row meanwhile.  A run
   is two steps here: the read, then the rest of the handler *)

\* did the run write the status: save(update_fields=["status"]) and no rollback
Saved(run) ==
    /\ Places(run.did, "save") # {}
    /\ run.did[Len(run.did)] = "return"

\* the rows after the run of event e committed: only the status is written
Committed(e, run) ==
    IF Saved(run)
    THEN [events EXCEPT ![e].status = run.row.status]
    ELSE events

\* the other deliveries that are running the same handler for the same event
Peers(p) ==
    {q \in Deliveries \ {p} :
        /\ inflight[q].op = inflight[p].op
        /\ inflight[q].fwe = inflight[p].fwe}

\* the deliveries after p's run ended.  dup: a run of the same handler for
\* the same event took effect while this one was running
Ended(p, effect) ==
    [q \in Deliveries |->
        IF q = p
        THEN Idle
        ELSE IF effect /\ q \in Peers(p)
             THEN [inflight[q] EXCEPT !.dup = TRUE]
             ELSE inflight[q]]

\* the read of line 221 or line 322 by delivery p
Begin(p, op, e) ==
    /\ inflight[p].op = "idle"
    /\ inflight' = [inflight EXCEPT
                       ![p] = [op |-> op, fwe |-> e, row |-> events[e],
                               dup |-> FALSE]]
    /\ UNCHANGED <<events, subscriptions, channels, sponsorship, filepath_local,
                   queue, posts, published, purchases, ledger, reassigned,
                   new_case>>

\* line 221
CheckBegin(p, e) == Begin(p, "check_webhook_before_posting", e)

\* lines 223-264, on the row read at line 221
CheckEnd(p) ==
    /\ inflight[p].op = "check_webhook_before_posting"
    /\ \E lookup \in {"ok", "raise"}, purchase \in {"ok", "raise"} :
        LET e == inflight[p].fwe
            run == CheckRun(inflight[p].row, e, filepath_local[e], channels,
                            sponsorship, lookup, purchase)
        IN  /\ Len(queue) + Len(run.jobs) <= MaxJobs
            /\ purchases[e] + run.bought <= MaxPurchases
            /\ events' = Committed(e, run)
            /\ queue' = queue \o run.jobs
            /\ purchases' = [purchases EXCEPT ![e] = @ + run.bought]
            /\ inflight' = Ended(p, run.bought > 0 \/ run.jobs # <<>>)
    /\ UNCHANGED <<subscriptions, channels, sponsorship, filepath_local, posts,
                   published, ledger, reassigned, new_case>>

\* line 322
FetchBegin(p, e) == Begin(p, "process_fetch_webhook_event", e)

\* lines 325-370, on the row read at line 322
FetchEnd(p) ==
    /\ inflight[p].op = "process_fetch_webhook_event"
    /\ \E lookup \in {"ok", "none", "raise"} :
        LET e == inflight[p].fwe
            run == FetchRun(inflight[p].row, e, filepath_local[e], channels,
                            sponsorship, lookup)
        IN  /\ Len(queue) + Len(run.jobs) <= MaxJobs
            /\ Len(ledger) + Len(run.entries) <= MaxLedger
            /\ events' = Committed(e, run)
            /\ queue' = queue \o run.jobs
            /\ ledger' = ledger \o run.entries
            /\ inflight' = Ended(p, run.entries # <<>> \/ run.jobs # <<>>)
    /\ UNCHANGED <<subscriptions, channels, sponsorship, filepath_local, posts,
                   published, purchases, reassigned, new_case>>

NextDuplicate ==
    \/ \E p \in Deliveries : \E e \in Events : CheckBegin(p, e)
    \/ \E p \in Deliveries : CheckEnd(p)
    \/ \E p \in Deliveries : \E e \in Events : FetchBegin(p, e)
    \/ \E p \in Deliveries : FetchEnd(p)
    \/ \E e \in Events : process_filing_webhook_event(e)
    \/ \E e \in Events : DocumentArrives(e)

SpecDuplicate == Init /\ [][NextDuplicate]_vars

----------------------------------------------------------------------------
(* The purchase and its callback.  Pre-post check sends the purchase request
   at line 252 and writes WAITING_FOR_DOCUMENT at line 258; the write is
   committed when the handler returns.  The callback of the purchase backend
   runs process_fetch_webhook_event in another worker, whenever it comes.
   The run of Pre-post check is three steps here: the read of line 221, lines
   223-254, and lines 255-259 *)

\* lines 223-254 of a run that buys the document: the purchase request is sent
CheckRequest(p) ==
    /\ inflight[p].op = "check_webhook_before_posting"
    /\ LET e == inflight[p].fwe
           run == CheckRun(inflight[p].row, e, filepath_local[e], channels,
                           sponsorship, "ok", "ok")
       IN  /\ run.bought = 1
           /\ purchases[e] + run.bought <= MaxPurchases
           /\ purchases' = [purchases EXCEPT ![e] = @ + run.bought]
           /\ inflight' = [inflight EXCEPT ![p].op = "purchase requested"]
    /\ UNCHANGED <<events, subscriptions, channels, sponsorship, filepath_local,
                   queue, posts, published, ledger, reassigned, new_case>>

\* lines 255-259: save(update_fields=["status"]) and the commit
CheckSave(p) ==
    /\ inflight[p].op = "purchase requested"
    /\ events' = [events EXCEPT
                     ![inflight[p].fwe].status = WAITING_FOR_DOCUMENT]
    /\ inflight' = [inflight EXCEPT ![p] = Idle]
    /\ UNCHANGED <<subscriptions, channels, sponsorship, filepath_local, queue,
                   posts, published, purchases, ledger, reassigned, new_case>>

NextRace ==
    \/ \E p \in Deliveries : \E e \in Events : CheckBegin(p, e)
    \/ \E p \in Deliveries : CheckRequest(p)
    \/ \E p \in Deliveries : CheckSave(p)
    \/ \E e \in Events : process_fetch_webhook_event(e)
    \/ \E e \in Events : process_filing_webhook_event(e)
    \/ \E e \in Events : DocumentArrives(e)

SpecRace == Init /\ [][NextRace]_vars

----------------------------------------------------------------------------
(* The properties *)

\* what a state says about event e
Linked(e) == events[e].subscription # None
Suppressed(e) == DoNotPost[events[e].description]
JobsFor(e) == {i \in 1..Len(queue) : queue[i].fwe_pk = e}

\* the runs of the handlers in the current state, when every call to the
\* purchase backend returns
CheckNow(e) == CheckRun(events[e], e, filepath_local[e], channels, sponsorship,
                        "ok", "ok")
FetchNow(e) == FetchRun(events[e], e, filepath_local[e], channels, sponsorship,
                        "ok")

\* C1: an event whose description matches DO_NOT_POST leaves Link and
\* Pre-post check as IGNORED, and once it is IGNORED no later step (Link again,
\* Pre-post check again, Fetch completion) enqueues a posting job for it.
C1_SuppressedNeverEnqueued ==
    [][\A e \in Events :
           Suppressed(e) =>
               /\ (events[e].status = SUCCESSFUL /\ Linked(e)
                       => CheckNow(e).row.status = IGNORED)
               /\ (events[e].status = IGNORED
                       => {i \in 1..Len(queue') : queue'[i].fwe_pk = e}
                              = JobsFor(e))]_vars

\* C2: Link on an event whose docket id matches no Subscription gives FAILED
\* with the subscription unset, and from then on no step changes the event's
\* status or subscription or enqueues a job for it.
C2_FailedIsFinal ==
    [][\A e \in Events :
           /\ (events[e].docket_id # 0
               /\ SubscriptionsByDocket(subscriptions, events[e].docket_id) = {}
                   => /\ LinkRow(events[e], subscriptions).status = FAILED
                      /\ LinkRow(events[e], subscriptions).subscription = None)
           /\ (events[e].status = FAILED
                   => /\ events'[e] = events[e]
                      /\ {i \in 1..Len(queue') : queue'[i].fwe_pk = e}
                             = JobsFor(e))]_vars

\* C3: Link applied twice to an event gives the same (status, subscription)
\* as Link applied once, for every event row a run reaches and every set of
\* Subscriptions.
C3_LinkIdempotent ==
    \A e \in Events : \A subs \in SUBSET Subscriptions :
        LET once == LinkRow(events[e], subs)
            twice == LinkRow(once, subs)
        IN  /\ twice.status = once.status
            /\ twice.subscription = once.subscription

\* C3's case: Link has run again on an event it had linked
C3_Witness ==
    \E e \in Events : reassigned[e] /\ events[e].status = SUCCESSFUL

\* C4: the fan-out for a linked event with K enabled channels enqueues exactly
\* K jobs, one for each channel, no two for the same channel, whether or not
\* the channels belong to a group.
C4_FanOutCardinality ==
    \A e \in Events : \A check_sponsor_message \in BOOLEAN :
        Linked(e) =>
            LET out == enqueue_posts_for_docket_alert(
                           events[e], e, None, check_sponsor_message, channels,
                           sponsorship)
            IN  /\ Len(out.jobs) = Cardinality(channels)
                /\ {out.jobs[i].channel_pk : i \in 1..Len(out.jobs)} = channels

\* the state in which C5 and C6 look at Pre-post check: the event is linked,
\* SUCCESSFUL and not suppressed
ReadyToCheck(e) ==
    /\ events[e].status = SUCCESSFUL
    /\ Linked(e)
    /\ ~Suppressed(e)

\* C5's case: no local copy, an active sponsorship, no DO_NOT_PAY match
PurchaseCase(e) ==
    /\ ReadyToCheck(e)
    /\ ~filepath_local[e]
    /\ check_active_sponsorships(channels, sponsorship, events[e].subscription)
    /\ ~DoNotPay[events[e].description]

\* C5 as stated: in the purchase case Pre-post check always moves the event to
\* WAITING_FOR_DOCUMENT, sends exactly one purchase request and enqueues no
\* job, also for an event without a PACER document id.
C5_PurchaseAlways ==
    \A e \in Events :
        PurchaseCase(e) =>
            /\ CheckNow(e).row.status = WAITING_FOR_DOCUMENT
            /\ CheckNow(e).bought = 1
            /\ CheckNow(e).jobs = <<>>

\* C5 amended: in the purchase case Pre-post check moves an event that has a
\* PACER document id to WAITING_FOR_DOCUMENT, sends exactly one purchase
\* request and enqueues no job; an event without a PACER document id stays
\* SUCCESSFUL, no purchase request is sent and its jobs carry no document.
C5_PurchaseNeedsPacerId ==
    \A e \in Events :
        PurchaseCase(e) =>
            IF events[e].pacer_doc_id # None
            THEN /\ CheckNow(e).row.status = WAITING_FOR_DOCUMENT
                 /\ CheckNow(e).bought = 1
                 /\ CheckNow(e).jobs = <<>>
            ELSE /\ CheckNow(e).row.status = SUCCESSFUL
                 /\ CheckNow(e).bought = 0
                 /\ \A i \in 1..Len(CheckNow(e).jobs) :
                        CheckNow(e).jobs[i].document_url = None

\* C5's case has happened: the purchase was requested once, the event waits
C5_Witness ==
    \E e \in Events :
        /\ events[e].status = WAITING_FOR_DOCUMENT
        /\ events[e].pacer_doc_id # None
        /\ purchases[e] = 1
        /\ JobsFor(e) = {}

\* C6: when the document has a local copy, Pre-post check sends no purchase
\* request, leaves the status SUCCESSFUL and enqueues the posting jobs, one for
\* each enabled channel, each carrying the document's path, whatever the
\* sponsorships are.
C6_AvailableDocumentIsDispatched ==
    \A e \in Events :
        ReadyToCheck(e) /\ filepath_local[e] =>
            /\ CheckNow(e).bought = 0
            /\ CheckNow(e).row.status = SUCCESSFUL
            /\ {CheckNow(e).jobs[i].channel_pk : i \in 1..Len(CheckNow(e).jobs)}
                   = channels
            /\ \A i \in 1..Len(CheckNow(e).jobs) :
                   CheckNow(e).jobs[i].document_url = FilePath(e)

\* C7: a Fetch completion that succeeds for an event whose document was
\* purchased records a ledger entry against the sponsoring groups before it
\* enqueues any job, and every job it enqueues carries a sponsor text.
C7_FetchLogsAndWatermarks ==
    \A e \in Events :
        /\ events[e].status = WAITING_FOR_DOCUMENT
        /\ purchases[e] > 0
        /\ filepath_local[e]
        /\ FetchNow(e).did[Len(FetchNow(e).did)] = "return"
        => /\ Len(FetchNow(e).entries) = 1
           /\ \A i \in Places(FetchNow(e).did, "log_purchase") :
                  \A j \in Places(FetchNow(e).did, "enqueue") : i < j
           /\ \A i \in 1..Len(FetchNow(e).jobs) :
                  FetchNow(e).jobs[i].sponsor_text # None

\* C8: there is at most one Post for an event and a channel, and a Post, once
\* created, stays as it is.
C8_OnePostPerEventAndChannel ==
    [][/\ \A p \in posts' : \A q \in posts' :
              p.filing_webhook_event = q.filing_webhook_event
              /\ p.channel = q.channel
                  => p = q
       /\ posts \subseteq posts']_vars

\* C9: every Post was created by an attempt whose api.add_status call
\* returned: the platform accepted a status for the Post's channel and event
\* and gave it the Post's object_id, and a job for that channel and event
\* finished; an attempt whose platform call raises creates no Post.
C9_PostOnlyAfterPlatformCall ==
    /\ \A p \in posts :
           /\ \E st \in published :
                  /\ st.channel = p.channel
                  /\ st.fwe = p.filing_webhook_event
                  /\ st.object_id = p.object_id
           /\ \E i \in 1..Len(queue) :
                  /\ queue[i].status = "finished"
                  /\ queue[i].channel_pk = p.channel
                  /\ queue[i].fwe_pk = p.filing_webhook_event
                  /\ NewPostId(i, queue[i]) = p.object_id
    /\ \A i \in 1..Len(queue) :
           queue[i].status = "queued"
               => PostRun(i, queue[i], events[queue[i].fwe_pk], "raise").post = {}

\* C9's case: one attempt failed at the platform, another one created a Post
C9_Witness ==
    /\ posts # {}
    /\ \E i \in 1..Len(queue) :
           queue[i].status = "failed" \/ queue[i].retries_left < MaxRetries

\* C10: once an event's subscription is set, no run of a handler assigns it
\* again (a replay of Link included), and the subscription keeps its value.
C10_SubscriptionSetOnce ==
    [][\A e \in Events :
           /\ ~reassigned'[e]
           /\ Linked(e) => events'[e].subscription = events[e].subscription]_vars

\* C11: an event that has reached IGNORED keeps that status: no step (Link
\* again, Fetch completion) changes it.
C11_IgnoredIsFinal ==
    [][\A e \in Events :
           events[e].status = IGNORED => events'[e].status = IGNORED]_vars

\* C12: of two runs of the same handler for the same event that overlap
\* (duplicate delivery), at most one takes effect: the run that ends after the
\* other one took effect sends no purchase request, records no ledger entry
\* and enqueues no job.
C12_DuplicateTakesEffectOnce ==
    [][\A p \in Deliveries :
           /\ inflight[p].op # "idle"
           /\ inflight[p].dup
           /\ inflight'[p].op = "idle"
           => /\ purchases' = purchases
              /\ ledger' = ledger
              /\ queue' = queue]_vars

\* C13: an attempt at one job, failed or not, out of retries or not, leaves
\* every other job as it was, leaves the Posts of the other channels in place,
\* and leaves what an attempt at any other job would do unchanged.
C13_JobsAreIndependent ==
    [][\A i \in 1..Len(queue) : \A j \in 1..Len(queue) :
           i # j /\ queue'[i] # queue[i]
           => /\ queue'[j] = queue[j]
              /\ {p \in posts' : p.channel # queue[i].channel_pk}
                     = {p \in posts : p.channel # queue[i].channel_pk}
              /\ \A platform \in {"ok", "raise"} :
                     PostRun(j, queue'[j], events'[queue'[j].fwe_pk], platform)
                         = PostRun(j, queue[j], events[queue[j].fwe_pk], platform)]_vars

\* C13's case: the job of one channel ran out of retries, the job of another
\* channel of the same event created its Post
C13_Witness ==
    \E i \in 1..Len(queue) : \E j \in 1..Len(queue) :
        /\ queue[i].fwe_pk = queue[j].fwe_pk
        /\ queue[i].channel_pk # queue[j].channel_pk
        /\ queue[i].status = "failed"
        /\ queue[j].status = "finished"
        /\ \E p \in posts : p.channel = queue[j].channel_pk
        /\ \A p \in posts : p.channel # queue[i].channel_pk

\* C14: for an event without a subscription the fan-out raises an error
\* instead of returning, and an attempt of the posting worker raises and
\* leaves the job failed, not to be retried.
C14_MissingSubscriptionFailsLoudly ==
    \A e \in Events :
        ~Linked(e) =>
            /\ \A check_sponsor_message \in BOOLEAN :
                   enqueue_posts_for_docket_alert(
                       events[e], e, None, check_sponsor_message, channels,
                       sponsorship).raised # None
            /\ \A c \in Channels :
                   LET run == PostRun(1, Job(c, e, None, None), events[e], "ok")
                   IN  /\ run.did = <<"raise">>
                       /\ run.job.status = "failed"

\* the Posts that the attempts at job i created
PostsOf(i) == {p \in posts : \E job \in {queue[i]} : \E k \in 0..MaxRetries :
                  p.object_id = NewPostId(i, [job EXCEPT !.retries_left = k])}

\* job i has ended
JobEnded(i) == i <= Len(queue) /\ queue[i].status \in {"finished", "failed"}

\* C15: a job is re-attempted at most MaxRetries times; a job ends failed only
\* with its retries used up and without a Post, a finished job has created
\* exactly one Post, a queued job none; and every job that was enqueued ends,
\* finished or failed.
C15_JobsTerminate ==
    /\ [](\A i \in 1..Len(queue) :
              /\ queue[i].retries_left \in 0..MaxRetries
              /\ queue[i].status \in {"queued", "finished", "failed"}
              /\ queue[i].status = "failed" => queue[i].retries_left = 0
              /\ Cardinality(PostsOf(i))
                     = IF queue[i].status = "finished" THEN 1 ELSE 0)
    /\ \A i \in 1..MaxJobs : (i <= Len(queue)) ~> JobEnded(i)

\* C15's case: one job failed with its retries used up, another one created
\* its Post on a retry
C15_Witness ==
    \E i \in 1..Len(queue) : \E j \in 1..Len(queue) :
        /\ queue[i].status = "failed"
        /\ queue[i].retries_left = 0
        /\ queue[j].status = "finished"
        /\ queue[j].retries_left < MaxRetries

\* C16: Pre-post check on an event whose status is not SUCCESSFUL (received,
\* FAILED, IGNORED, WAITING_FOR_DOCUMENT) leaves the row as it is, looks no
\* document up, sends no purchase request and enqueues no job, whatever the
\* purchase backend would answer.
C16_CheckOnlyFromSuccessful ==
    \A e \in Events :
        events[e].status # SUCCESSFUL =>
            \A lookup \in {"ok", "raise"}, purchase \in {"ok", "raise"} :
                LET run == CheckRun(events[e], e, filepath_local[e], channels,
                                    sponsorship, lookup, purchase)
                IN  /\ run.row = events[e]
                    /\ run.jobs = <<>>
                    /\ run.bought = 0
                    /\ Places(run.did, "lookup") = {}
                    /\ Places(run.did, "purchase") = {}
                    /\ Places(run.did, "save") = {}

\* C16's case: the event waits for a document that was purchased and that a
\* second purchase would be requested for
C16_Witness ==
    \E e \in Events :
        /\ events[e].status = WAITING_FOR_DOCUMENT
        /\ ~filepath_local[e]
        /\ MustPurchase(events[e], channels, sponsorship)
        /\ purchases[e] = 1

\* C17: Fetch completion on an event whose status is not WAITING_FOR_DOCUMENT
\* leaves the status as it is, records no ledger entry and enqueues no job.
C17_FetchOnlyFromWaiting ==
    \A e \in Events :
        events[e].status # WAITING_FOR_DOCUMENT =>
            \A lookup \in {"ok", "none", "raise"} :
                LET run == FetchRun(events[e], e, filepath_local[e], channels,
                                    sponsorship, lookup)
                IN  /\ run.row.status = events[e].status
                    /\ run.entries = <<>>
                    /\ run.jobs = <<>>

\* C18: Fetch completion on a waiting event whose document lookup returns
\* nothing, or a document without a local path, writes SUCCESSFUL, then raises:
\* the row it leaves is the row it found (status WAITING_FOR_DOCUMENT), no
\* ledger entry is recorded and no job is enqueued.
C18_FetchWithoutDocumentFails ==
    \A e \in Events :
        Linked(e) /\ events[e].status = WAITING_FOR_DOCUMENT =>
            \A lookup \in {"ok", "none"} :
                lookup = "none" \/ ~filepath_local[e] =>
                    LET run == FetchRun(events[e], e, filepath_local[e],
                                        channels, sponsorship, lookup)
                    IN  /\ Places(run.did, "status=SUCCESSFUL") # {}
                        /\ run.did[Len(run.did)] = "raise"
                        /\ run.row = events[e]
                        /\ run.row.status = WAITING_FOR_DOCUMENT
                        /\ run.entries = <<>>
                        /\ run.jobs = <<>>

\* C18's case: the event waits, its document has still no local copy, and
\* nothing was recorded or enqueued for it
C18_Witness ==
    \E e \in Events :
        /\ Linked(e)
        /\ events[e].status = WAITING_FOR_DOCUMENT
        /\ ~filepath_local[e]
        /\ ledger = <<>>
        /\ JobsFor(e) = {}

\* C19: when the document has no local copy and the subscription has no
\* active sponsorship, Pre-post check sends no purchase request, leaves the
\* status SUCCESSFUL and enqueues the posting jobs, one for each enabled
\* channel, each with no document and no sponsor text.
C19_NoSponsorNoPurchase ==
    \A e \in Events :
        /\ ReadyToCheck(e)
        /\ ~filepath_local[e]
        /\ ~check_active_sponsorships(channels, sponsorship,
                                      events[e].subscription)
        => /\ CheckNow(e).bought = 0
           /\ CheckNow(e).row.status = SUCCESSFUL
           /\ {CheckNow(e).jobs[i].channel_pk : i \in 1..Len(CheckNow(e).jobs)}
                  = channels
           /\ \A i \in 1..Len(CheckNow(e).jobs) :
                  /\ CheckNow(e).jobs[i].document_url = None
                  /\ CheckNow(e).jobs[i].sponsor_text = None

\* C20: for an event whose description matches DO_NOT_PAY no step sends a
\* purchase request or moves it to WAITING_FOR_DOCUMENT, also with the
\* document unavailable and a sponsorship active; and, its description not
\* matching DO_NOT_POST, Pre-post check dispatches it: one job for each enabled
\* channel, carrying no document when the document is not available.
C20_DoNotPayNeverPurchases ==
    [][\A e \in Events :
           DoNotPay[events[e].description] =>
               /\ purchases'[e] = purchases[e]
               /\ events'[e].status # WAITING_FOR_DOCUMENT
               /\ ReadyToCheck(e) =>
                      /\ CheckNow(e).bought = 0
                      /\ {CheckNow(e).jobs[i].channel_pk :
                              i \in 1..Len(CheckNow(e).jobs)} = channels
                      /\ ~filepath_local[e] =>
                             \A i \in 1..Len(CheckNow(e).jobs) :
                                 CheckNow(e).jobs[i].document_url = None]_vars

\* C21: a run of Pre-post check in which the document lookup or the purchase
\* request raises ends with that error, leaves the row as it was (status
\* SUCCESSFUL), counts no purchase as sent and enqueues no job; run again with
\* the backend answering, it does what a first run would have done.
C21_BackendErrorPropagates ==
    \A e \in Events :
        events[e].status = SUCCESSFUL /\ Linked(e) /\ ~Suppressed(e) =>
            \A lookup \in {"ok", "raise"}, purchase \in {"ok", "raise"} :
                LET run == CheckRun(events[e], e, filepath_local[e], channels,
                                    sponsorship, lookup, purchase)
                    reached == Places(run.did, "purchase") # {}
                IN  lookup = "raise" \/ (reached /\ purchase = "raise") =>
                        /\ run.did[Len(run.did)] = "raise"
                        /\ Places(run.did, "enqueue") = {}
                        /\ run.row = events[e]
                        /\ run.row.status = SUCCESSFUL
                        /\ run.jobs = <<>>
                        /\ run.bought = 0
                        /\ CheckRun(run.row, e, filepath_local[e], channels,
                                    sponsorship, "ok", "ok") = CheckNow(e)

\* C21's case: the event is ready for the check, its document is to be
\* bought, and nothing was bought or enqueued for it so far
C21_Witness ==
    \E e \in Events :
        /\ ReadyToCheck(e)
        /\ ~filepath_local[e]
        /\ MustPurchase(events[e], channels, sponsorship)
        /\ purchases[e] = 0
        /\ JobsFor(e) = {}

\* C23: an attempt of the posting worker, whether it creates the Post, raises
\* and is put back, or raises with no retry left, leaves every event row
\* (status and subscription) as it was.
C23_WorkerLeavesEvent ==
    [][(\E i \in 1..Len(queue) : queue'[i] # queue[i]) => events' = events]_vars

\* C23's case: a job ran out of retries and its event is still SUCCESSFUL
C23_Witness ==
    \E i \in 1..Len(queue) :
        /\ queue[i].status = "failed"
        /\ events[queue[i].fwe_pk].status = SUCCESSFUL

\* C26: in every reachable state an event that is SUCCESSFUL, IGNORED or
\* WAITING_FOR_DOCUMENT has its subscription set and an event that is FAILED
\* has it unset (Subscriptions are never deleted).
C26_StatusAgreesWithSubscription ==
    \A e \in Events :
        /\ events[e].status \in {SUCCESSFUL, IGNORED, WAITING_FOR_DOCUMENT}
               => Linked(e)
        /\ events[e].status = FAILED => ~Linked(e)

\* C26's case: Link failed the event, and the Subscription was created later
C26_Witness ==
    \E e \in Events :
        /\ events[e].status = FAILED
        /\ SubscriptionsByDocket(subscriptions, events[e].docket_id) # {}

\* C27: no event has more than one purchase request sent for it, and an
\* event leaves WAITING_FOR_DOCUMENT only in a step that is a Fetch completion
\* (the row, the queue and the ledger change as a run of it changes them).
C27_OnePurchasePerEvent ==
    [][\A e \in Events :
           /\ purchases'[e] <= 1
           /\ events[e].status = WAITING_FOR_DOCUMENT
              /\ events'[e].status # WAITING_FOR_DOCUMENT
              => /\ FetchNow(e).did[Len(FetchNow(e).did)] = "return"
                 /\ events'[e] = FetchNow(e).row
                 /\ queue' = queue \o FetchNow(e).jobs
                 /\ ledger' = ledger \o FetchNow(e).entries
                 /\ ledger' # ledger]_vars

\* C29: no attempt of the posting worker creates a Post on a channel that is
\* disabled when the attempt runs.
C29_NoPostOnDisabledChannel ==
    [][\A p \in posts' \ posts : p.channel \in channels]_vars

\* C28: an event for which a Fetch completion has committed (its purchase is
\* in the ledger) is not in WAITING_FOR_DOCUMENT, whenever the callback runs,
\* also between the purchase request of Pre-post check and its commit.
C28_NotWaitingAfterFetch ==
    \A e \in Events :
        (\E k \in 1..Len(ledger) : ledger[k].fwe = e)
            => events[e].status # WAITING_FOR_DOCUMENT

\* C25: an event in WAITING_FOR_DOCUMENT is dispatched in the end: when the
\* document gets its local copy and the callback is handled, the event is
\* SUCCESSFUL again and every enabled channel has a posting job for it.
C25_WaitingIsDispatched ==
    \A e \in Events :
        (events[e].status = WAITING_FOR_DOCUMENT)
            ~> (/\ events[e].status = SUCCESSFUL
                /\ channels \subseteq {queue[i].channel_pk : i \in JobsFor(e)})

\* C22: every status a platform accepted, for a docket alert or for a newly
\* followed case, is recorded by exactly one Post with its channel, its
\* context and the id the platform gave.
C22_EveryPublishHasOnePost ==
    \A st \in published :
        Cardinality({p \in posts : /\ p.channel = st.channel
                                   /\ p.filing_webhook_event = st.fwe
                                   /\ p.object_id = st.object_id}) = 1

\* C24: check_initial_complaint_before_posting sends a purchase request and
\* runs no fan-out exactly when the initial complaint was found, has no local
\* copy, has a PACER document id and the subscription has an active
\* sponsorship; in every other case it sends none and runs the new-case
\* fan-out.
C24_NewCasePurchaseGate ==
    \A s \in subscriptions : \A doc \in Complaints :
        LET run == CaseRun(s, doc, channels, sponsorship)
            fanout == Places(run.did, "enqueue_posts_for_new_case") # {}
        IN  IF /\ doc.found
               /\ ~doc.filepath_local
               /\ doc.pacer_doc_id
               /\ check_active_sponsorships(channels, sponsorship, s)
            THEN /\ run.bought = 1
                 /\ Places(run.did, "purchase") # {}
                 /\ ~fanout
                 /\ run.jobs = <<>>
            ELSE /\ run.bought = 0
                 /\ Places(run.did, "purchase") = {}
                 /\ fanout

\* C24's case: for a followed case a purchase was requested by one run and
\* jobs were enqueued by another
C24_Witness ==
    /\ subscriptions # {}
    /\ new_case.purchases = 1
    /\ new_case.jobs # <<>>

\* C30: in the new-case fan-out with sponsor checking on and a document, the
\* images of every job carry the sponsor text of the job's channel's group,
\* once, if that group has a sponsorship, and no other text.
C30_OneWatermarkPerChannel ==
    \A s \in Subscriptions :
        LET out == enqueue_posts_for_new_case(s, FilePath(s), TRUE, channels,
                                              sponsorship)
        IN  \A i \in 1..Len(out.jobs) :
                out.jobs[i].files.watermarks
                    = IF sponsorship[ChannelGroup(out.jobs[i].channel_pk)] # "none"
                      THEN <<watermark_message(
                                 ChannelGroup(out.jobs[i].channel_pk))>>
                      ELSE <<>>

====
